---- MODULE Spec2Model ----
(***************************************************************************)
(* Model of the deployments command line of bentoml_cli/deployments.py     *)
(* (create, update, terminate) and of the schemas and the converter of     *)
(* yatai_rest_api_client/schemas.py.                                       *)
(*                                                                         *)
(* A Python str is a sequence of chunks.  Every chunk stands for the       *)
(* characters it spells ("config", ".", "cpu", ...).  No chunk of the      *)
(* alphabet is a prefix of another chunk, so startswith, removeprefix,     *)
(* removesuffix and split on chunk sequences agree with the same           *)
(* operations on the characters: "envs" is <<"env", "s">> and "cpuTypo" is *)
(* <<"cpu", "Typo">>.                                                      *)
(***************************************************************************)
EXTENDS Integers, Sequences, FiniteSets, TLC

VARIABLES op, args, result, store, class_attrs, ncalls

vars == <<op, args, result, store, class_attrs, ncalls>>

(***************************************************************************)
(* Python str operations                                                   *)
(***************************************************************************)
Dot == "."

startswith(s, p) == Len(p) <= Len(s) /\ SubSeq(s, 1, Len(p)) = p

endswith(s, p) == Len(p) <= Len(s) /\ SubSeq(s, Len(s) - Len(p) + 1, Len(s)) = p

removeprefix(s, p) == IF startswith(s, p) THEN SubSeq(s, Len(p) + 1, Len(s)) ELSE s

removesuffix(s, p) == IF endswith(s, p) THEN SubSeq(s, 1, Len(s) - Len(p)) ELSE s

\* index of the first occurrence of the chunk sep in s at or after i, 0 if none
RECURSIVE find(_, _, _)
find(s, sep, i) ==
    IF i > Len(s) THEN 0
    ELSE IF s[i] = sep THEN i
    ELSE find(s, sep, i + 1)

\* str.split(sep): the pieces between ALL occurrences of sep ("a" -> ["a"])
RECURSIVE split(_, _)
split(s, sep) ==
    LET i == find(s, sep, 1) IN
    IF i = 0 THEN <<s>>
    ELSE <<SubSeq(s, 1, i - 1)>> \o split(SubSeq(s, i + 1, Len(s)), sep)

\* sep.join(parts)
RECURSIVE join(_, _)
join(parts, sep) ==
    IF Len(parts) = 0 THEN <<>>
    ELSE IF Len(parts) = 1 THEN parts[1]
    ELSE parts[1] \o <<sep>> \o join(Tail(parts), sep)

(***************************************************************************)
(* Python dict: a sequence of entries [k, v] with distinct keys, in        *)
(* insertion order.                                                        *)
(***************************************************************************)
Keys(d) == {d[i].k : i \in 1..Len(d)}

Lookup(d, key) == (CHOOSE i \in 1..Len(d) : d[i].k = key)

\* d[key] = value: a present key keeps its position and takes the new value
DictSet(d, key, value) ==
    IF key \in Keys(d)
    THEN [i \in 1..Len(d) |-> IF d[i].k = key THEN [k |-> key, v |-> value] ELSE d[i]]
    ELSE Append(d, [k |-> key, v |-> value])

\* parse_config(stem, config): the dict comprehension of lines 31-35
parse_config(stem, config) ==
    LET dotted == IF endswith(stem, <<Dot>>) THEN stem ELSE stem \o <<Dot>>
        RECURSIVE build(_, _)
        build(i, acc) ==
            IF i > Len(config) THEN acc
            ELSE IF startswith(config[i].k, stem)
                 THEN build(i + 1, DictSet(acc, removeprefix(config[i].k, dotted), config[i].v))
                 ELSE build(i + 1, acc)
    IN build(1, <<>>)

(***************************************************************************)
(* Bounded inputs of the parse_config specification                        *)
(***************************************************************************)
MaxKeyLen == 3
MaxStemLen == 2
MaxEntries == 2

Alphabet == {"a", "b", Dot}

Strs(n) == UNION {[1..m -> Alphabet] : m \in 0..n}

FlagValues == {<<"1">>, <<"2">>}

FlatMaps ==
    UNION {{d \in [1..m -> [k : Strs(MaxKeyLen), v : FlagValues]] :
               \A i, j \in 1..m : i # j => d[i].k # d[j].k} : m \in 0..MaxEntries}

(***************************************************************************)
(* Python objects.  A node is [cls, f, v]: cls names the class, f maps the *)
(* attribute names of an attrs instance (or the keys of a dict) to nodes,  *)
(* v is the text of a str or the items of a list.  An exception raised by  *)
(* an expression is the node Raise(name); it propagates through every      *)
(* expression that evaluates it.                                           *)
(***************************************************************************)
None == [cls |-> "NoneType", f |-> <<>>, v |-> <<>>]

Str(s) == [cls |-> "str", f |-> <<>>, v |-> s]

IntV(s) == [cls |-> "int", f |-> <<>>, v |-> s]

BoolV(s) == [cls |-> "bool", f |-> <<>>, v |-> s]

List(items) == [cls |-> "list", f |-> <<>>, v |-> items]

Dict(m) == [cls |-> "dict", f |-> m, v |-> <<>>]

Obj(cls, fields) == [cls |-> cls, f |-> fields, v |-> <<>>]

Raise(exc) == [cls |-> "raise", f |-> <<>>, v |-> <<exc>>]

IsExc(n) == n.cls = "raise"

\* the first exception among the nodes ns, evaluated left to right
FirstExc(ns) == ns[CHOOSE i \in 1..Len(ns) : IsExc(ns[i]) /\ \A j \in 1..(i - 1) : ~IsExc(ns[j])]

AnyExc(ns) == \E i \in 1..Len(ns) : IsExc(ns[i])

(***************************************************************************)
(* schemas.py: the attrs classes of the deployment target configuration.   *)
(* attr.define makes every attribute without a default a required          *)
(* argument of __init__ and gives the class __slots__.                     *)
(***************************************************************************)
Fields(cls) ==
    CASE cls = "LabelItemSchema" -> {<<"key">>, <<"value">>}
      [] cls = "DeploymentTargetResourceItem" -> {<<"cpu">>, <<"memory">>, <<"gpu">>}
      [] cls = "DeploymentTargetResources" -> {<<"requests">>, <<"limits">>}
      [] cls = "DeploymentTargetHPAConf" ->
            {<<"cpu">>, <<"gpu">>, <<"memory">>, <<"qps">>, <<"min_replicas">>, <<"max_replicas">>}
      [] cls = "DeploymentTargetRunnerConfig" -> {<<"resources">>, <<"hpa_conf">>, <<"env", "s">>}
      [] cls = "DeploymentTargetConfig" ->
            {<<"kubeResourceUid">>, <<"kubeResourceVersion">>, <<"resources">>, <<"hpa_conf">>,
             <<"env", "s">>, <<"runners">>, <<"enable_ingress">>}
      [] OTHER -> {}

\* cls(**d): the __init__ attrs generates takes exactly the attributes of cls
\* as keywords (TypeError on a missing or an unexpected one) and stores the
\* arguments as they are
AttrsInit(cls, d) ==
    IF Keys(d) = Fields(cls)
    THEN Obj(cls, [a \in Fields(cls) |-> Str(d[Lookup(d, a)].v)])
    ELSE Raise("TypeError")

\* the mutant of LabelItemSchema: a missing value defaults to the empty str
LabelItemSchemaLenient(parts) ==
    IF Len(parts) \in {1, 2}
    THEN Obj("LabelItemSchema",
             (<<"key">> :> Str(parts[1]))
                @@ (<<"value">> :> Str(IF Len(parts) = 2 THEN parts[2] ELSE <<>>)))
    ELSE Raise("TypeError")

\* LabelItemSchema(*parts): two positional arguments, key and value
LabelItemSchema(parts) ==
    IF Len(parts) = 2
    THEN Obj("LabelItemSchema", (<<"key">> :> Str(parts[1])) @@ (<<"value">> :> Str(parts[2])))
    ELSE Raise("TypeError")

\* DeploymentTargetResources(requests, limits)
DeploymentTargetResources(requests, limits) ==
    IF AnyExc(<<requests, limits>>) THEN FirstExc(<<requests, limits>>)
    ELSE Obj("DeploymentTargetResources", (<<"requests">> :> requests) @@ (<<"limits">> :> limits))

(***************************************************************************)
(* deployments.py: create                                                  *)
(***************************************************************************)
cfg == <<"config">>

\* the dotted key of the segments segs
Key(segs) == join(segs, Dot)

\* [LabelItemSchema(*env.split("=")) for env in envs]: iterating a dict
\* yields its keys
EnvLabels(envs) ==
    LET labels == [i \in 1..Len(envs) |-> LabelItemSchema(split(envs[i].k, "="))] IN
    IF AnyExc(labels) THEN FirstExc(labels) ELSE List(labels)

\* {runner.split(".")[0] for runner in parse_config("config.runners", kwargs).keys()}
RunnerNames(kwargs) ==
    {split(k, Dot)[1] : k \in Keys(parse_config(Key(<<cfg, <<"runners">>>>), kwargs))}

\* lines 333-345: the DeploymentTargetRunnerConfig built from the flags
\* below config_name, its arguments evaluated in the order they are written
RunnerConfigAt(config_name, kwargs) ==
    LET runner_envs == parse_config(config_name \o <<Dot, "env">>, kwargs)
        runner_hpa_conf == parse_config(config_name \o <<Dot, "hpa_conf">>, kwargs)
        runner_requests == parse_config(config_name \o <<Dot, "resources", Dot, "requests">>, kwargs)
        runner_limits == parse_config(config_name \o <<Dot, "resources", Dot, "limits">>, kwargs)
        a == <<EnvLabels(runner_envs),
               AttrsInit("DeploymentTargetHPAConf", runner_hpa_conf),
               DeploymentTargetResources(
                   AttrsInit("DeploymentTargetResourceItem", runner_requests),
                   AttrsInit("DeploymentTargetResourceItem", runner_limits))>>
    IN IF AnyExc(a) THEN FirstExc(a)
       ELSE Obj("DeploymentTargetRunnerConfig",
                (<<"env", "s">> :> a[1]) @@ (<<"hpa_conf">> :> a[2]) @@ (<<"resources">> :> a[3]))

\* the mutant of RunnerConfig: config_name lacks the runner, so that the
\* runner is built from the top-level flags
RunnerConfigTop(runner, kwargs) == RunnerConfigAt(cfg, kwargs)

\* line 332: config_name = f"config.runners.{runner}"
RunnerConfig(runner, kwargs) ==
    RunnerConfigAt(Key(<<cfg, <<"runners">>, runner>>), kwargs)

\* lines 330-346: runner_configs, or the exception of the first runner whose
\* construction raises (the runners are iterated as a set: every exception
\* raised here is a TypeError)
RunnerConfigs(kwargs) ==
    LET runners == RunnerNames(kwargs) IN
    IF \E r \in runners : IsExc(RunnerConfig(r, kwargs))
    THEN Raise("TypeError")
    ELSE Dict([r \in runners |-> RunnerConfig(r, kwargs)])

\* lines 352-363: the DeploymentTargetConfig of the target, its arguments
\* evaluated in the order they are written
TargetConfig(kwargs, runner_configs) ==
    LET config == parse_config(cfg, kwargs)
        resource_requests == parse_config(Key(<<cfg, <<"resources">>, <<"requests">>>>), kwargs)
        resource_limits == parse_config(Key(<<cfg, <<"resources">>, <<"limits">>>>), kwargs)
        hpa_conf == parse_config(Key(<<cfg, <<"hpa_conf">>>>), kwargs)
        envs == parse_config(Key(<<cfg, <<"env">>>>), kwargs)
        labels == EnvLabels(envs)
        a == <<DeploymentTargetResources(
                   AttrsInit("DeploymentTargetResourceItem", resource_requests),
                   AttrsInit("DeploymentTargetResourceItem", resource_limits)),
               AttrsInit("DeploymentTargetHPAConf", hpa_conf),
               IF ~IsExc(labels) /\ labels.v = <<>> THEN None ELSE labels,
               runner_configs,
               IF <<"enable_ingress">> \in Keys(config)
               THEN Str(config[Lookup(config, <<"enable_ingress">>)].v)
               ELSE Raise("KeyError")>>
    IN IF AnyExc(a) THEN FirstExc(a)
       ELSE Obj("DeploymentTargetConfig",
                (<<"kubeResourceUid">> :> Str(<<>>)) @@ (<<"kubeResourceVersion">> :> Str(<<>>))
                   @@ (<<"resources">> :> a[1]) @@ (<<"hpa_conf">> :> a[2])
                   @@ (<<"env", "s">> :> a[3]) @@ (<<"runners">> :> a[4])
                   @@ (<<"enable_ingress">> :> a[5]))

\* labels=LabelItemSchema(*label.split(":")) of line 371; label is a str node
\* or None, and None has no split
CreateLabels(label) ==
    IF label.cls = "NoneType" THEN Raise("AttributeError")
    ELSE LabelItemSchema(split(label.v, ":"))

\* create: [exc, config, labels, request]: the exception that ends the
\* command ("" when there is none), the assembled DeploymentTargetConfig, the
\* labels, and the number of create_deployment requests sent
create(kwargs, label) ==
    LET runner_configs == RunnerConfigs(kwargs)
        config == IF IsExc(runner_configs) THEN runner_configs
                  ELSE TargetConfig(kwargs, runner_configs)
        labels == IF IsExc(config) THEN config ELSE CreateLabels(label)
    IN IF IsExc(labels)
       THEN [exc |-> labels.v[1], config |-> IF IsExc(config) THEN None ELSE config,
             labels |-> None, requests |-> 0]
       ELSE [exc |-> "", config |-> config, labels |-> labels, requests |-> 1]

(***************************************************************************)
(* Attribute access on Python objects, as hasattr, getattr and setattr     *)
(* see it.  An instance of an attrs class (attr.define: __slots__, no      *)
(* __dict__) has its fields, the attribute __class__ and the attributes    *)
(* of its class; cattrs is the set of [cls, name, val] of attributes that  *)
(* were set on the classes themselves.                                     *)
(***************************************************************************)
AttrsClasses ==
    {"LabelItemSchema", "DeploymentTargetResourceItem", "DeploymentTargetResources",
     "DeploymentTargetHPAConf", "DeploymentTargetRunnerConfig", "DeploymentTargetConfig"}

DunderClass == <<"__class__">>

\* the class object named name
Type(name) == [cls |-> "type", f |-> <<>>, v |-> <<name>>]

\* the member descriptor of a slot, as found on the class
Descriptor == [cls |-> "member_descriptor", f |-> <<>>, v |-> <<>>]

IsInstance(n) == n.cls \in AttrsClasses

IsAttrsClass(n) == n.cls = "type" /\ n.v[1] \in AttrsClasses

HasClassAttr(cls, name, cattrs) == \E c \in cattrs : c.cls = cls /\ c.name = name

ClassAttr(cls, name, cattrs) == (CHOOSE c \in cattrs : c.cls = cls /\ c.name = name).val

hasattr(n, name, cattrs) ==
    \/ name = DunderClass
    \/ IsInstance(n) /\ (name \in Fields(n.cls) \/ HasClassAttr(n.cls, name, cattrs))
    \/ IsAttrsClass(n) /\ (name \in Fields(n.v[1]) \/ HasClassAttr(n.v[1], name, cattrs))

\* getattr(n, name), for a name that hasattr finds
getattr(n, name, cattrs) ==
    IF IsInstance(n) /\ HasClassAttr(n.cls, name, cattrs) THEN ClassAttr(n.cls, name, cattrs)
    ELSE IF IsInstance(n) /\ name \in Fields(n.cls) THEN n.f[name]
    ELSE IF IsAttrsClass(n) /\ HasClassAttr(n.v[1], name, cattrs) THEN ClassAttr(n.v[1], name, cattrs)
    ELSE IF IsAttrsClass(n) /\ name \in Fields(n.v[1]) THEN Descriptor
    ELSE Type(n.cls)

\* the exception setattr(n, name, value) raises, "" when it sets the attribute
setattr_exc(n, name, cattrs) ==
    IF IsInstance(n)
    THEN IF name = DunderClass THEN "TypeError"
         ELSE IF name \in Fields(n.cls) /\ ~HasClassAttr(n.cls, name, cattrs) THEN ""
         ELSE "AttributeError"
    ELSE IF n.cls = "type"
    THEN IF IsAttrsClass(n) /\ name # DunderClass THEN "" ELSE "TypeError"
    ELSE "AttributeError"

\* the node at the path of field names below root
RECURSIVE NodeAt(_, _)
NodeAt(root, path) ==
    IF path = <<>> THEN root ELSE NodeAt(root.f[Head(path)], Tail(path))

\* root with the node at path replaced by n
RECURSIVE Replace(_, _, _)
Replace(root, path, n) ==
    IF path = <<>> THEN n
    ELSE [root EXCEPT !.f = [a \in DOMAIN root.f |->
             IF a = Head(path) THEN Replace(root.f[a], Tail(path), n) ELSE root.f[a]]]

\* set_config(obj, key, value), lines 38-47: [exc, obj, cattrs], the exception
\* raised ("" when none) and the object and the class attributes afterwards.
\* The cursor _obj is the node reached and, while it is a part of obj, its
\* path below obj (inobj): setattr on it changes obj in place.
set_config(obj, key, value, cattrs) ==
    LET key_path == split(key, Dot)
        n == Len(key_path)
        RECURSIVE walk(_, _)
        walk(i, cur) ==
            IF i > n - 1 THEN cur
            ELSE IF ~hasattr(cur.node, key_path[i], cattrs)
            THEN [exc |-> "AttributeError", node |-> cur.node, inobj |-> FALSE, path |-> <<>>]
            ELSE walk(i + 1,
                      [exc |-> "",
                       node |-> getattr(cur.node, key_path[i], cattrs),
                       inobj |-> /\ cur.inobj
                                 /\ IsInstance(cur.node)
                                 /\ key_path[i] \in Fields(cur.node.cls)
                                 /\ ~HasClassAttr(cur.node.cls, key_path[i], cattrs),
                       path |-> Append(cur.path, key_path[i])])
        _obj == walk(1, [exc |-> "", node |-> obj, inobj |-> TRUE, path |-> <<>>])
        last == key_path[n]
        exc == IF _obj.exc # "" THEN _obj.exc ELSE setattr_exc(_obj.node, last, cattrs)
    IN IF exc # "" THEN [exc |-> exc, obj |-> obj, cattrs |-> cattrs]
       ELSE IF IsInstance(_obj.node)
       THEN [exc |-> "",
             obj |-> IF _obj.inobj THEN Replace(obj, Append(_obj.path, last), value) ELSE obj,
             cattrs |-> cattrs]
       ELSE [exc |-> "", obj |-> obj,
             cattrs |-> {c \in cattrs : ~(c.cls = _obj.node.v[1] /\ c.name = last)}
                           \cup {[cls |-> _obj.node.v[1], name |-> last, val |-> value]}]

(***************************************************************************)
(* Inputs of the create specification: the flags of a command line, as the *)
(* flat kwargs of the command.  Each group of leaves is absent, partly     *)
(* given or complete; the values are those of the command's help text,     *)
(* with the runner's name put before the values of a runner.               *)
(***************************************************************************)
E(segs, val) == [k |-> Key(segs), v |-> val]

ItemFlags(root, tag, sel, cpu, memory, gpu) ==
    CASE sel = "none" -> <<>>
      [] sel = "cpu" -> <<E(root \o <<<<"cpu">>>>, tag \o cpu)>>
      [] sel = "all" -> <<E(root \o <<<<"cpu">>>>, tag \o cpu),
                          E(root \o <<<<"memory">>>>, tag \o memory),
                          E(root \o <<<<"gpu">>>>, tag \o gpu)>>

HpaFlags(root, tag, sel) ==
    LET h == root \o <<<<"hpa_conf">>>> IN
    CASE sel = "none" -> <<>>
      [] sel = "qps" -> <<E(h \o <<<<"qps">>>>, tag \o <<"100">>)>>
      [] sel = "replicas" -> <<E(h \o <<<<"min_replicas">>>>, tag \o <<"1">>),
                               E(h \o <<<<"max_replicas">>>>, tag \o <<"10">>)>>
      [] sel = "all" -> <<E(h \o <<<<"cpu">>>>, tag \o <<"80">>),
                          E(h \o <<<<"gpu">>>>, tag \o <<"4">>),
                          E(h \o <<<<"memory">>>>, tag \o <<"256Mi">>),
                          E(h \o <<<<"qps">>>>, tag \o <<"100">>),
                          E(h \o <<<<"min_replicas">>>>, tag \o <<"1">>),
                          E(h \o <<<<"max_replicas">>>>, tag \o <<"10">>)>>

GroupFlags(root, tag, rq, lm, hp) ==
    ItemFlags(root \o <<<<"resources">>, <<"requests">>>>, tag, rq, <<"1000m">>, <<"512Mi">>, <<"2">>)
       \o ItemFlags(root \o <<<<"resources">>, <<"limits">>>>, tag, lm, <<"1500m">>, <<"1024Mi">>, <<"3">>)
       \o HpaFlags(root, tag, hp)

IngressFlags(sel) ==
    IF sel = "none" THEN <<>> ELSE <<E(<<cfg, <<"enable_ingress">>>>, <<"1">>)>>

RunnerA == <<"ra">>
RunnerB == <<"ra", "x">>

RunnerRoot(runner) == <<cfg, <<"runners">>, runner>>

RunnerFlags(runner, sel) ==
    CASE sel = "none" -> <<>>
      [] sel = "cpu" -> GroupFlags(RunnerRoot(runner), runner, "cpu", "none", "none")
      [] sel = "qps" -> GroupFlags(RunnerRoot(runner), runner, "none", "none", "qps")
      [] sel = "all" -> GroupFlags(RunnerRoot(runner), runner, "all", "all", "all")

ExtraFlags(sel) ==
    CASE sel = "none" -> <<>>
      [] sel = "env" -> <<E(<<cfg, <<"env">>>>, <<"FOO", "=", "bar", "=", "baz">>)>>
      [] sel = "env1" -> <<E(<<cfg, <<"env">>, <<"FOO", "=", "bar">>>>, <<>>)>>
      [] sel = "env2" -> <<E(<<cfg, <<"env">>, <<"FOO", "=", "bar", "=", "baz">>>>, <<>>)>>
      [] sel = "envdup" -> <<E(<<cfg, <<"env">>, <<"FOO", "=", "bar">>>>, <<>>),
                             E(<<cfg, <<"env">>, <<"FOO", "=", "baz">>>>, <<>>)>>
      [] sel = "runnerenv" -> <<E(RunnerRoot(RunnerA) \o <<<<"env">>, <<"K", "=", "V">>>>, <<>>)>>
      [] sel = "runnersX" -> <<E(<<cfg, <<"runners", "X">>, <<"y">>>>, <<"1">>)>>
      [] sel = "cpuTypo" ->
            <<E(<<cfg, <<"resources">>, <<"requests">>, <<"cpu", "Typo">>>>, <<"1">>)>>

ItemSel == {"none", "cpu", "all"}
HpaSel == {"none", "qps", "replicas", "all"}
ExtraSel == {"none", "env", "env1", "env2", "envdup", "runnerenv", "runnersX", "cpuTypo"}

CreateKwargs ==
    {GroupFlags(<<cfg>>, <<>>, rq, lm, hp) \o IngressFlags(ing)
        \o RunnerFlags(RunnerA, ra) \o RunnerFlags(RunnerB, rb) \o ExtraFlags(x) :
        rq \in ItemSel, lm \in ItemSel, hp \in HpaSel, ing \in {"none", "1"},
        ra \in {"none", "cpu", "all"}, rb \in {"none", "qps", "all"}, x \in ExtraSel}

\* the --label option: not given (None), or a click.STRING
Labels ==
    {None, Str(<<>>), Str(<<"foo">>), Str(<<"foo", ":", "bar">>),
     Str(<<"foo", ":", "bar", ":", "baz">>)}

(***************************************************************************)
(* deployments.py: update.  The objects of the command live in store:      *)
(* objs[r] is the object with reference r, deployment is the reference of  *)
(* deployment.latest_revision.targets[0].config, update_target the one of  *)
(* update_target.config, and fetched is the configuration as              *)
(* get_deployment returned it.                                             *)
(***************************************************************************)
NoStore == [objs |-> <<>>, deployment |-> 0, update_target |-> 0, fetched |-> None]

Item(cpu, memory, gpu) ==
    Obj("DeploymentTargetResourceItem",
        (<<"cpu">> :> cpu) @@ (<<"memory">> :> memory) @@ (<<"gpu">> :> gpu))

Config(requests, limits, hpa_conf, envs, runners, enable_ingress) ==
    Obj("DeploymentTargetConfig",
        (<<"kubeResourceUid">> :> Str(<<"uid">>)) @@ (<<"kubeResourceVersion">> :> Str(<<"7">>))
           @@ (<<"resources">> :>
                  Obj("DeploymentTargetResources",
                      (<<"requests">> :> requests) @@ (<<"limits">> :> limits)))
           @@ (<<"hpa_conf">> :> hpa_conf) @@ (<<"env", "s">> :> envs)
           @@ (<<"runners">> :> runners) @@ (<<"enable_ingress">> :> enable_ingress))

HpaConf(cpu, gpu, memory, qps, min_replicas, max_replicas) ==
    Obj("DeploymentTargetHPAConf",
        (<<"cpu">> :> cpu) @@ (<<"gpu">> :> gpu) @@ (<<"memory">> :> memory)
           @@ (<<"qps">> :> qps) @@ (<<"min_replicas">> :> min_replicas)
           @@ (<<"max_replicas">> :> max_replicas))

\* the configurations get_deployment returns in the model: one with every
\* optional part present, one with every optional part None
ExistingConfigs ==
    {Config(Item(Str(<<"500m">>), Str(<<"256Mi">>), None),
            Item(Str(<<"800m">>), Str(<<"512Mi">>), None),
            HpaConf(IntV(<<"80">>), None, None, IntV(<<"50">>), IntV(<<"1">>), IntV(<<"5">>)),
            List(<<Obj("LabelItemSchema",
                       (<<"key">> :> Str(<<"LOG">>)) @@ (<<"value">> :> Str(<<"DEBUG">>)))>>),
            Dict(RunnerA :>
                    Obj("DeploymentTargetRunnerConfig",
                        (<<"resources">> :> None) @@ (<<"hpa_conf">> :> None)
                           @@ (<<"env", "s">> :> None))),
            BoolV(<<"True">>)),
     Config(None, None, None, None, None, None)}

\* lines 436-443: config=target.config hands the fetched object itself to
\* the update target
UpdateTargetConfig(st) == [st EXCEPT !.update_target = st.deployment]

\* key.removesuffix("config.") of line 448
OverlayKey(key) == removesuffix(key, <<"config", Dot>>)

\* lines 444-448: the loop over kwargs.items(), from entry i on; [exc, obj,
\* cattrs, at]: the exception that ended it ("" when none), the object and
\* the class attributes afterwards, and the index of the entry that raised
RECURSIVE Overlay(_, _, _, _)
Overlay(kwargs, i, obj, cattrs) ==
    IF i > Len(kwargs) THEN [exc |-> "", obj |-> obj, cattrs |-> cattrs, at |-> 0]
    ELSE IF ~startswith(kwargs[i].k, cfg) THEN Overlay(kwargs, i + 1, obj, cattrs)
    ELSE LET r == set_config(obj, OverlayKey(kwargs[i].k), Str(kwargs[i].v), cattrs) IN
         IF r.exc # "" THEN [exc |-> r.exc, obj |-> r.obj, cattrs |-> r.cattrs, at |-> i]
         ELSE Overlay(kwargs, i + 1, r.obj, r.cattrs)

\* labels=LabelItemSchema(*label.split(":")) if label else None, line 456:
\* None and the empty str are false
UpdateLabels(label) ==
    IF label.cls # "NoneType" /\ label.v # <<>>
    THEN LabelItemSchema(split(label.v, ":")) ELSE None

(***************************************************************************)
(* Inputs of update and of set_config                                      *)
(***************************************************************************)
MaxFlags == 2
MaxCalls == 2

UpdateFlags ==
    {E(<<cfg, <<"resources">>, <<"requests">>, <<"cpu">>>>, <<"2000m">>),
     E(<<cfg, <<"hpa_conf">>, <<"qps">>>>, <<"100">>),
     E(<<cfg, <<"enable_ingress">>>>, <<"1">>),
     E(<<cfg, <<"resources">>, <<"requests">>, <<"cpu", "Typo">>>>, <<"1">>),
     E(<<cfg>>, <<"1">>),
     E(<<cfg, <<>>>>, <<"1">>),
     E(<<<<"other">>>>, <<"1">>)}

UpdateKwargs ==
    UNION {{d \in [1..m -> UpdateFlags] : \A i, j \in 1..m : i # j => d[i].k # d[j].k} :
              m \in 0..MaxFlags}

\* the keys of the direct calls of set_config, relative to the config root
ConfigKeys ==
    {Key(<<<<"resources">>, <<"requests">>, <<"cpu">>>>),
     Key(<<<<"resources">>, <<"limits">>, <<"memory">>>>),
     Key(<<<<"hpa_conf">>, <<"qps">>>>),
     Key(<<<<"enable_ingress">>>>),
     Key(<<<<"resources">>>>),
     Key(<<<<"resources">>, <<"requests">>, <<"cpu", "Typo">>>>),
     Key(<<<<"resources">>, <<"Typo">>, <<"cpu">>>>),
     Key(<<<<"runners">>, RunnerA, <<"hpa_conf">>>>),
     Key(<<DunderClass, <<"cpu", "Typo">>>>),
     Key(<<<<"cpu", "Typo">>>>)}

InitRest ==
    /\ store = NoStore
    /\ class_attrs = {}
    /\ ncalls = 0

InitParse ==
    /\ op = "input"
    /\ args \in [stem : Strs(MaxStemLen) \ {<<>>}, config : FlatMaps]
    /\ result = <<>>
    /\ InitRest

ParseConfigCall ==
    /\ op = "input"
    /\ op' = "parse_config"
    /\ result' = parse_config(args.stem, args.config)
    /\ UNCHANGED <<args, store, class_attrs, ncalls>>

NextParse == ParseConfigCall

SpecParse == InitParse /\ [][NextParse]_vars

(***************************************************************************)
(* The commands.  op is the position of the command that runs.             *)
(***************************************************************************)
Init ==
    /\ op = "idle"
    /\ args = <<>>
    /\ result = <<>>
    /\ InitRest

\* create, lines 320-375
CreateCall ==
    /\ op = "idle"
    /\ \E kwargs \in CreateKwargs, label \in Labels :
          /\ args' = [kwargs |-> kwargs, label |-> label]
          /\ result' = create(kwargs, label)
    /\ op' = "create"
    /\ UNCHANGED <<store, class_attrs, ncalls>>

\* update, lines 432-443: get_deployment and the update target
UpdateTarget ==
    /\ op = "idle"
    /\ \E c \in ExistingConfigs :
          store' = UpdateTargetConfig([objs |-> <<c>>, deployment |-> 1,
                                       update_target |-> 0, fetched |-> c])
    /\ op' = "update_target"
    /\ UNCHANGED <<args, result, class_attrs, ncalls>>

\* update, lines 444-448: the overlay of the config flags
UpdateOverlay ==
    /\ op = "update_target"
    /\ \E kwargs \in UpdateKwargs :
          LET r == Overlay(kwargs, 1, store.objs[store.update_target], class_attrs) IN
          /\ args' = [kwargs |-> kwargs]
          /\ result' = [exc |-> r.exc, at |-> r.at, requests |-> 0]
          /\ store' = [store EXCEPT !.objs[store.update_target] = r.obj]
          /\ class_attrs' = r.cattrs
          /\ op' = IF r.exc = "" THEN "overlaid" ELSE "overlay_raised"
    /\ UNCHANGED ncalls

\* update, lines 450-460: the update request
UpdateSend ==
    /\ op = "overlaid"
    /\ \E label \in Labels :
          LET labels == UpdateLabels(label) IN
          /\ args' = [kwargs |-> args.kwargs, label |-> label]
          /\ result' = IF IsExc(labels)
                       THEN [exc |-> labels.v[1], labels |-> None, config |-> None, requests |-> 0]
                       ELSE [exc |-> "", labels |-> labels,
                             config |-> store.objs[store.update_target], requests |-> 1]
          /\ op' = IF IsExc(labels) THEN "update_raised" ELSE "update"
    /\ UNCHANGED <<store, class_attrs, ncalls>>

\* set_config(update_target.config, key, value), lines 38-47, called with a
\* key relative to the config root; calls is the batch of calls made so far
SetConfigCall ==
    /\ op \in {"update_target", "set_config"}
    /\ ncalls < MaxCalls
    /\ \E key \in ConfigKeys :
          LET before == store.objs[store.update_target]
              r == set_config(before, key, Str(<<"2000m">>), class_attrs)
          IN
          /\ args' = [key |-> key, value |-> Str(<<"2000m">>), before |-> before,
                      cattrs |-> class_attrs]
          /\ result' = [exc |-> r.exc]
          /\ store' = [store EXCEPT !.objs[store.update_target] = r.obj]
          /\ class_attrs' = r.cattrs
          /\ op' = IF r.exc = "" THEN "set_config" ELSE "set_config_raised"
    /\ ncalls' = ncalls + 1

Next == CreateCall \/ UpdateTarget \/ UpdateOverlay \/ UpdateSend \/ SetConfigCall

Spec == Init /\ [][Next]_vars

(***************************************************************************)
(* Properties                                                              *)
(***************************************************************************)
NodeEq(a, b) == a.cls = b.cls /\ a = b

\* every segment of path names a field of the object reached so far
RECURSIVE KnownPath(_, _)
KnownPath(obj, path) ==
    \/ path = <<>>
    \/ /\ IsInstance(obj)
       /\ Head(path) \in Fields(obj.cls)
       /\ KnownPath(obj.f[Head(path)], Tail(path))

ConfigDot == <<"config", Dot>>

Target == store.objs[store.update_target]

\* C1: after the overlay of update, every flag config.<path>, <path> a dotted
\* path of known fields of the existing configuration, has been applied
\* relative to the config root: the overlay did not fail and the update
\* target's config holds the flag's value at <path>.
C1_ConfigFlagApplied ==
    op \in {"overlaid", "overlay_raised"} =>
        \A i \in 1..Len(args.kwargs) :
            LET key == args.kwargs[i].k
                path == split(removeprefix(key, ConfigDot), Dot)
            IN startswith(key, ConfigDot) /\ KnownPath(store.fetched, path) =>
                  /\ result.exc = ""
                  /\ NodeEq(NodeAt(Target, path), Str(args.kwargs[i].v))

\* C2: set_config fails, and sets no value, whenever a segment of the key
\* does not name a field of the object reached so far, be it an intermediate
\* segment or the final one.
C2_UnknownSegmentFails ==
    op \in {"set_config", "set_config_raised"}
       /\ ~KnownPath(args.before, split(args.key, Dot)) =>
        /\ result.exc # ""
        /\ Target = args.before
        /\ class_attrs = args.cattrs

Matching(p, m) == SelectSeq(m, LAMBDA e : startswith(e.k, p))

\* key with p, and the dot that separates p from the rest, stripped
Stripped(key, p) ==
    LET r == removeprefix(key, p) IN
    IF ~endswith(p, <<Dot>>) /\ Len(r) > 0 /\ r[1] = Dot THEN Tail(r) ELSE r

\* C5: parse_config(p, m) returns exactly one entry for each entry of m whose
\* key starts with p, in the original order, the key being the original key
\* with p and its separating dot stripped and the value unchanged; no two
\* surviving entries collapse into one.
C5_PrefixFilter ==
    op = "parse_config" =>
        LET sel == Matching(args.stem, args.config) IN
        /\ Len(result) = Len(sel)
        /\ \A i \in 1..Len(sel) :
              /\ result[i].k = Stripped(sel[i].k, args.stem)
              /\ result[i].v = sel[i].v

\* the leaves of a resources/hpa_conf group, relative to its root
ItemLeaves == {<<"cpu">>, <<"memory">>, <<"gpu">>}

GroupLeaves ==
    {<<<<"resources">>, g, a>> : g \in {<<"requests">>, <<"limits">>}, a \in ItemLeaves}
       \cup {<<<<"hpa_conf">>, a>> : a \in Fields("DeploymentTargetHPAConf")}

TopLeaves == GroupLeaves \cup {<<<<"enable_ingress">>>>}

\* the keys of the known leaves: those of the top level and of the runners
LeafKeys ==
    {Key(<<cfg>> \o l) : l \in TopLeaves}
       \cup {Key(RunnerRoot(r) \o l) : r \in {RunnerA, RunnerB}, l \in GroupLeaves}

\* the node at path, None when a part of the path is None
RECURSIVE LeafAt(_, _)
LeafAt(obj, path) ==
    IF path = <<>> \/ ~IsInstance(obj) THEN obj ELSE LeafAt(obj.f[Head(path)], Tail(path))

FooBar == Str(<<"foo", ":", "bar">>)

\* C6: create assembles a configuration from any subset of the known leaf
\* paths, and every leaf that was not supplied is None in it.
C6_AbsentLeavesNoValue ==
    op = "create" /\ Keys(args.kwargs) \subseteq LeafKeys /\ args.label = FooBar =>
        /\ result.exc = ""
        /\ \A l \in TopLeaves :
              Key(<<cfg>> \o l) \notin Keys(args.kwargs) =>
                  LeafAt(result.config, l).cls = "NoneType"

\* the texts of the environment entries below root: the value of the flag
\* <root>.env, or what follows <root>.env. in the key of a flag
EnvEntries(root, kwargs) ==
    LET envkey == Key(root \o <<<<"env">>>>)
        own == SelectSeq(kwargs,
                         LAMBDA e : e.k = envkey \/ startswith(e.k, envkey \o <<Dot>>))
    IN [i \in 1..Len(own) |->
           IF own[i].k = envkey THEN own[i].v ELSE removeprefix(own[i].k, envkey \o <<Dot>>)]

\* the Label of an entry: the text before the first "=" and all that follows it
FirstSplit(text) ==
    LET i == find(text, "=", 1) IN
    Obj("LabelItemSchema",
        (<<"key">> :> Str(SubSeq(text, 1, i - 1)))
           @@ (<<"value">> :> Str(SubSeq(text, i + 1, Len(text)))))

ExpectedEnvs(root, kwargs) ==
    [i \in 1..Len(EnvEntries(root, kwargs)) |-> FirstSplit(EnvEntries(root, kwargs)[i])]

Complete(kwargs) == {Key(<<cfg>> \o l) : l \in TopLeaves} \subseteq Keys(kwargs)

\* C7: each environment entry of a created configuration becomes one Label,
\* split at the first "=" only: "FOO=bar=baz" gives key "FOO" and value
\* "bar=baz"; entries with the same key stay separate.
C7_EnvSplitFirst ==
    op = "create" /\ Complete(args.kwargs) /\ args.label = FooBar
       /\ RunnerNames(args.kwargs) = {}
       /\ EnvEntries(<<cfg>>, args.kwargs) # <<>> =>
        /\ result.exc = ""
        /\ result.config.f[<<"env", "s">>].cls = "list"
        /\ result.config.f[<<"env", "s">>].v = ExpectedEnvs(<<cfg>>, args.kwargs)

\* the names <name> of the keys config.runners.<name>.*
RunnerNamesIn(kwargs) ==
    {split(k, Dot)[3] : k \in {k \in Keys(kwargs) :
        /\ Len(split(k, Dot)) >= 4
        /\ split(k, Dot)[1] = cfg
        /\ split(k, Dot)[2] = <<"runners">>}}

\* every leaf of the group below node is the value of the flag of its own
\* path below root, and every Label of envs comes from a flag below root.env
BuiltFrom(node, envs, root, kwargs) ==
    /\ \A l \in GroupLeaves :
          /\ Key(root \o l) \in Keys(kwargs)
          /\ NodeEq(NodeAt(node, l), Str(kwargs[Lookup(kwargs, Key(root \o l))].v))
    /\ envs.cls = "list" =>
          \A i \in 1..Len(envs.v) :
              \E k \in Keys(kwargs) :
                  /\ startswith(k, Key(root \o <<<<"env">>>>) \o <<Dot>>)
                  /\ envs.v[i] = FirstSplit(removeprefix(k, Key(root \o <<<<"env">>>>) \o <<Dot>>))

LabelFooBar ==
    Obj("LabelItemSchema", (<<"key">> :> Str(<<"foo">>)) @@ (<<"value">> :> Str(<<"bar">>)))

NoDelimiter(label) == label.cls = "str" /\ find(label.v, ":", 1) = 0

\* the command got as far as its labels
AtLabels == op \in {"update", "update_raised"} \/ (op = "create" /\ result.config.cls # "NoneType")

C10Flags == GroupFlags(<<cfg>>, <<>>, "cpu", "cpu", "replicas") \o IngressFlags("1")

\* C10: the flags requests.cpu="1000m", limits.cpu="1500m", min_replicas="1",
\* max_replicas="10", enable_ingress="1", alone or with other top-level
\* leaves, assemble into a config with the str "1000m" and "1500m", the int
\* 1 and 10 and the bool True.
C10_EndToEnd ==
    op = "create" /\ args.label = FooBar
       /\ Keys(args.kwargs) \subseteq {Key(<<cfg>> \o l) : l \in TopLeaves}
       /\ (\A i \in 1..Len(C10Flags) :
              \E j \in 1..Len(args.kwargs) : args.kwargs[j] = C10Flags[i]) =>
        /\ result.exc = ""
        /\ NodeEq(LeafAt(result.config, <<<<"resources">>, <<"requests">>, <<"cpu">>>>),
                  Str(<<"1000m">>))
        /\ NodeEq(LeafAt(result.config, <<<<"resources">>, <<"limits">>, <<"cpu">>>>),
                  Str(<<"1500m">>))
        /\ NodeEq(LeafAt(result.config, <<<<"hpa_conf">>, <<"min_replicas">>>>), IntV(<<"1">>))
        /\ NodeEq(LeafAt(result.config, <<<<"hpa_conf">>, <<"max_replicas">>>>), IntV(<<"10">>))
        /\ NodeEq(LeafAt(result.config, <<<<"enable_ingress">>>>), BoolV(<<"True">>))

(***************************************************************************)
(* schemas.py: timestamps.  A datetime is the node of class "datetime"     *)
(* whose f holds the calendar day, the clock time to the second, the       *)
(* microsecond (an integer) and the tzinfo ("" for a naive datetime).  Its *)
(* text is a str of chunks: the day, a separator, the clock time, ".",     *)
(* the digits of the fraction one by one, and an offset.                   *)
(***************************************************************************)
Datetime(day, clock, micro, tz) ==
    [cls |-> "datetime", f |-> [day |-> day, clock |-> clock, micro |-> micro, tz |-> tz],
     v |-> <<>>]

Digits == <<"0", "1", "2", "3", "4", "5", "6", "7", "8", "9">>

IsDigit(c) == \E i \in 1..Len(Digits) : Digits[i] = c

DigitVal(c) == (CHOOSE i \in 1..Len(Digits) : Digits[i] = c) - 1

\* %f: the microsecond as six digits, zero-padded on the left
Micro6(n) == [i \in 1..6 |-> Digits[((n \div (10 ^ (6 - i))) % 10) + 1]]

\* dateutil's fraction of a second: the digits padded on the right to six,
\* cut after six
MicroOf(ds) ==
    LET RECURSIVE sum(_)
        sum(i) == IF i > 6 THEN 0
                  ELSE (IF i <= Len(ds) THEN DigitVal(ds[i]) ELSE 0) * (10 ^ (6 - i)) + sum(i + 1)
    IN sum(1)

\* the format without the fraction of the second
time_format_seconds == <<"%Y-%m-%d", " ", "%H:%M:%S">>

\* time_format = "%Y-%m-%d %H:%M:%S.%f"
time_format == <<"%Y-%m-%d", " ", "%H:%M:%S", ".", "%f">>

\* time_obj.strftime(fmt): no directive of the format prints the tzinfo
RECURSIVE strftime(_, _)
strftime(time_obj, fmt) ==
    IF fmt = <<>> THEN <<>>
    ELSE (CASE Head(fmt) = "%Y-%m-%d" -> <<time_obj.f.day>>
            [] Head(fmt) = "%H:%M:%S" -> <<time_obj.f.clock>>
            [] Head(fmt) = "%f" -> Micro6(time_obj.f.micro)
            [] OTHER -> <<Head(fmt)>>) \o strftime(time_obj, Tail(fmt))

Days == {"2022-01-02"}

Midnight == "00:00:00"

Clocks == {"03:04:05", Midnight}

\* the offsets of a timestamp text and the tzinfo dateutil gives them
Offsets == {"Z", "+02:00"}

TzInfo(offset) == IF offset = "Z" THEN "UTC" ELSE offset

\* dateutil.parser.parse(datetime_str): lenient.  It takes a day alone, a
\* day and a clock time separated by " " or "T", a fraction of any number
\* of digits and an offset after the time; it raises ParserError on any
\* other text and TypeError on what is not a str.
parse(datetime_str) ==
    LET s == datetime_str.v
        aware == Len(s) > 3 /\ s[Len(s)] \in Offsets
        body == IF aware THEN SubSeq(s, 1, Len(s) - 1) ELSE s
        tz == IF aware THEN TzInfo(s[Len(s)]) ELSE ""
        n == Len(body)
        fraction == SubSeq(body, 5, n)
    IN
    IF datetime_str.cls # "str" THEN Raise("TypeError")
    ELSE IF n = 1 /\ body[1] \in Days /\ ~aware THEN Datetime(body[1], Midnight, 0, "")
    ELSE IF n >= 3 /\ body[1] \in Days /\ body[2] \in {" ", "T"} /\ body[3] \in Clocks
         THEN IF n = 3 THEN Datetime(body[1], body[3], 0, tz)
              ELSE IF n >= 5 /\ body[4] = "." /\ \A i \in 1..Len(fraction) : IsDigit(fraction[i])
                   THEN Datetime(body[1], body[3], MicroOf(fraction), tz)
                   ELSE Raise("ParserError")
    ELSE Raise("ParserError")

\* bool(obj): None, the empty str, 0 and the empty list and dict are false,
\* a datetime is always true
Truthy(obj) ==
    CASE obj.cls = "NoneType" -> FALSE
      [] obj.cls = "str" -> obj.v # <<>>
      [] obj.cls = "int" -> obj.v # <<"0">>
      [] obj.cls = "list" -> obj.v # <<>>
      [] obj.cls = "dict" -> DOMAIN obj.f # {}
      [] OTHER -> TRUE

\* datetime_encoder, lines 14-17
datetime_encoder(time_obj) ==
    IF ~Truthy(time_obj) THEN None ELSE Str(strftime(time_obj, time_format))

\* datetime_decoder, lines 20-23
datetime_decoder(datetime_str) ==
    IF ~Truthy(datetime_str) THEN None ELSE parse(datetime_str)

(***************************************************************************)
(* schemas.py: the schema classes.  A type annotation is a sequence: its   *)
(* head names the constructor, its tail is the argument.                   *)
(***************************************************************************)
TStr == <<"str">>

TInt == <<"int">>

TAny == <<"Any">>

TDatetime == <<"datetime">>

Optional(T) == <<"Optional">> \o T

ListOf(T) == <<"List">> \o T

DictOf(T) == <<"Dict">> \o T

Enum(name) == <<"Enum", name>>

Attrs(cls) == <<"attrs", cls>>

\* the default of an attribute: NOTHING (none, the attribute is a required
\* argument of __init__), None, or the factories list and dict
NOTHING == "NOTHING"

Attribute(name, type, default) == [name |-> <<name>>, type |-> type, default |-> default]

\* BaseSchema, lines 45-50
BaseSchema ==
    <<Attribute("uid", TStr, NOTHING),
      Attribute("created_at", TDatetime, NOTHING),
      Attribute("updated_at", Optional(TDatetime), NOTHING),
      Attribute("deleted_at", Optional(TDatetime), NOTHING)>>

\* the attributes of a schema class, those of its base class first
Attributes(cls) ==
    CASE cls = "BaseSchema" -> BaseSchema
      [] cls = "ResourceSchema" ->
            BaseSchema \o <<Attribute("name", TStr, NOTHING),
                            Attribute("resource_type", Enum("ResourceType"), NOTHING)>>
      [] cls = "LabelItemSchema" ->
            <<Attribute("key", TStr, NOTHING), Attribute("value", TStr, NOTHING)>>
      [] cls = "BentoApiSchema" ->
            <<Attribute("route", TStr, NOTHING), Attribute("doc", TStr, NOTHING),
              Attribute("input", TStr, NOTHING), Attribute("output", TStr, NOTHING)>>
      [] cls = "BentoRunnerResourceSchema" ->
            <<Attribute("cpu", Optional(TAny), NOTHING),
              Attribute("nvidia_gpu", Optional(TAny), NOTHING),
              Attribute("custom_resources", Optional(TAny), NOTHING)>>
      [] cls = "BentoRunnerSchema" ->
            <<Attribute("name", TStr, NOTHING),
              Attribute("runnable_type", Optional(TStr), NOTHING),
              Attribute("models", Optional(ListOf(TStr)), NOTHING),
              Attribute("resource_config", Optional(Attrs("BentoRunnerResourceSchema")),
                        NOTHING)>>
      [] cls = "BentoManifestSchema" ->
            <<Attribute("service", TStr, NOTHING),
              Attribute("bentoml_version", TStr, NOTHING),
              Attribute("size_bytes", TInt, NOTHING),
              Attribute("apis", DictOf(Attrs("BentoApiSchema")), "dict"),
              Attribute("models", ListOf(TStr), "list"),
              Attribute("runners", Optional(ListOf(Attrs("BentoRunnerSchema"))), "list")>>
      [] cls = "UpdateBentoSchema" ->
            <<Attribute("manifest", Optional(Attrs("BentoManifestSchema")), "None"),
              Attribute("labels", Optional(ListOf(Attrs("LabelItemSchema"))), "None")>>
      [] cls = "FinishUploadBentoSchema" ->
            <<Attribute("status", Optional(Enum("BentoUploadStatus")), NOTHING),
              Attribute("reason", Optional(TStr), NOTHING)>>

SchemaClasses ==
    {"BaseSchema", "ResourceSchema", "LabelItemSchema", "BentoApiSchema",
     "BentoRunnerResourceSchema", "BentoRunnerSchema", "BentoManifestSchema",
     "UpdateBentoSchema", "FinishUploadBentoSchema"}

Member(name, value) == [name |-> name, value |-> <<value>>]

\* the members of the enumerations: their names and their values
Members(enum) ==
    CASE enum = "ResourceType" ->
            <<Member("USER", "user"), Member("ORG", "organization"),
              Member("CLUSTER", "cluster"), Member("BENTO_REPOSITORY", "bento_repository"),
              Member("BENTO", "bento"), Member("MODEL_REPOSITORY", "model_repository"),
              Member("MODEL", "model")>>
      [] enum = "BentoUploadStatus" ->
            <<Member("PENDING", "pending"), Member("BUILDING", "uploading"),
              Member("SUCCESS", "success"), Member("FAILED", "failed")>>
      [] enum = "DeploymentStatus" ->
            <<Member("UNKNOWN", "unknown"), Member("NONDEPLOYED", "non-deployed"),
              Member("RUNNING", "running"), Member("UNHEALTHY", "unhealthy"),
              Member("FAILED", "failed"), Member("DEPLOYING", "deploying")>>

EnumClasses == {"ResourceType", "BentoUploadStatus", "DeploymentStatus"}

\* the member of an enumeration is the node of the enumeration's class whose
\* v holds the member's name
EnumMember(enum, name) == [cls |-> enum, f |-> <<>>, v |-> <<name>>]

\* enum(value): the member with this value, ValueError if there is none
EnumCall(enum, obj) ==
    LET ms == Members(enum)
        hit == {i \in 1..Len(ms) : ms[i].value = obj.v}
    IN IF obj.cls = "str" /\ hit # {}
       THEN EnumMember(enum, ms[CHOOSE i \in hit : TRUE].name)
       ELSE Raise("ValueError")

\* member.value
EnumValue(member) ==
    LET ms == Members(member.cls) IN
    Str(ms[CHOOSE i \in 1..Len(ms) : ms[i].name = member.v[1]].value)

(***************************************************************************)
(* schemas.py: the converter.  A JSON document is the tree json.loads      *)
(* gives and json.dumps takes: a dict node whose f maps the keys that are  *)
(* present to nodes, a list, a str, an int or None (null).  On such trees  *)
(* json.dumps and json.loads are inverse to each other.                    *)
(***************************************************************************)
\* str(obj), the structure of the annotation str
str(obj) ==
    CASE obj.cls = "str" -> obj
      [] obj.cls = "NoneType" -> Str(<<"None">>)
      [] obj.cls \in {"int", "bool"} -> Str(obj.v)
      [] OTHER -> Str(<<"repr">>)

\* int(obj), the structure of the annotation int
int(obj) ==
    CASE obj.cls \in {"int", "bool"} -> IntV(obj.v)
      [] obj.cls = "str" ->
            IF obj.v # <<>> /\ \A i \in 1..Len(obj.v) : IsDigit(obj.v[i])
            THEN IntV(obj.v) ELSE Raise("ValueError")
      [] OTHER -> Raise("TypeError")

\* the value of an attribute whose key the document lacks: the attribute's
\* default, and without one the TypeError of cls(**conv_obj)
Default(default) ==
    CASE default = "None" -> None
      [] default = "list" -> List(<<>>)
      [] default = "dict" -> Dict(<<>>)
      [] OTHER -> Raise("TypeError")

\* converter.structure(obj, T), with the structure hook of line 29.  An
\* attrs class takes the keys of its attributes from the dict, skips a key
\* that is missing and ignores every other key; Optional lets None through
\* and hands every other value to its argument.  (A str or a dict in the
\* place of a list is not among the documents.)
RECURSIVE structure(_, _)
structure(obj, T) ==
    CASE T[1] = "Optional" -> IF obj.cls = "NoneType" THEN None ELSE structure(obj, Tail(T))
      [] T[1] = "Any" -> obj
      [] T[1] = "str" -> str(obj)
      [] T[1] = "int" -> int(obj)
      [] T[1] = "datetime" -> datetime_decoder(obj)
      [] T[1] = "Enum" -> EnumCall(T[2], obj)
      [] T[1] = "List" ->
            LET items == [i \in 1..Len(obj.v) |-> structure(obj.v[i], Tail(T))] IN
            IF obj.cls # "list" THEN Raise("TypeError")
            ELSE IF AnyExc(items) THEN FirstExc(items)
            ELSE List(items)
      [] T[1] = "Dict" ->
            LET items == [k \in DOMAIN obj.f |-> structure(obj.f[k], Tail(T))] IN
            IF obj.cls # "dict" THEN Raise("AttributeError")
            ELSE IF \E k \in DOMAIN items : IsExc(items[k])
                 THEN items[CHOOSE k \in DOMAIN items : IsExc(items[k])]
            ELSE Dict(items)
      [] T[1] = "attrs" ->
            LET as == Attributes(T[2])
                given == SelectSeq(as, LAMBDA a : a.name \in DOMAIN obj.f)
                conv == [i \in 1..Len(given) |->
                            structure(obj.f[given[i].name], given[i].type)]
                init == [i \in 1..Len(as) |->
                            IF as[i].name \in DOMAIN obj.f
                            THEN conv[CHOOSE j \in 1..Len(given) : given[j].name = as[i].name]
                            ELSE Default(as[i].default)]
            IN
            IF obj.cls # "dict" THEN Raise("TypeError")
            ELSE IF AnyExc(conv) THEN FirstExc(conv)
            ELSE IF AnyExc(init) THEN FirstExc(init)
            ELSE Obj(T[2], [n \in {as[i].name : i \in 1..Len(as)} |->
                               init[CHOOSE i \in 1..Len(as) : as[i].name = n]])

\* converter.unstructure(obj, obj.__class__), with the unstructure hook of
\* line 28: every value is unstructured by its own class
RECURSIVE unstructure(_)
unstructure(obj) ==
    CASE obj.cls = "datetime" -> datetime_encoder(obj)
      [] obj.cls \in EnumClasses -> EnumValue(obj)
      [] obj.cls \in SchemaClasses \cup {"dict"} ->
            Dict([k \in DOMAIN obj.f |-> unstructure(obj.f[k])])
      [] obj.cls = "list" -> List([i \in 1..Len(obj.v) |-> unstructure(obj.v[i])])
      [] OTHER -> obj

\* schema_from_json, lines 35-37
schema_from_json(json_content, cls) == structure(json_content, Attrs(cls))

\* schema_to_json, lines 40-42
schema_to_json(obj) == unstructure(obj)

(***************************************************************************)
(* Bounded inputs of the converter specification: documents to decode and  *)
(* typed values to encode.                                                 *)
(***************************************************************************)
Day == "2022-01-02"

Clock == "03:04:05"

\* a key of a document is missing or given with a value
Missing == <<>>

Given(node) == <<node>>

\* the document with the keys names[i] that choice[i] gives
DocOf(names, choice) ==
    LET at == {i \in 1..Len(names) : Len(choice[i]) > 0} IN
    Dict([n \in {<<names[i]>> : i \in at} |-> choice[CHOOSE i \in at : <<names[i]>> = n][1]])

\* timestamp texts: the encode pattern, a day alone, ISO 8601 without and
\* with fraction and offset, and a text that is no timestamp
Timestamps ==
    {<<Day, " ", Clock, ".", "0", "0", "0", "0", "0", "6">>,
     <<Day>>,
     <<Day, "T", Clock>>,
     <<Day, "T", Clock, ".", "5", "Z">>,
     <<Day, " ", Clock, "+02:00">>}

NoTimestamp == <<"soon">>

BaseNames == <<"uid", "created_at", "updated_at", "deleted_at">>

BaseDocs ==
    {DocOf(BaseNames, c) :
        c \in {Missing, Given(None), Given(Str(<<"u1">>))}
              \X ({Missing, Given(None), Given(Str(<<>>)), Given(Str(NoTimestamp))}
                     \cup {Given(Str(t)) : t \in Timestamps})
              \X {Missing, Given(None), Given(Str(<<>>)),
                  Given(Str(<<Day, "T", Clock, ".", "5", "Z">>))}
              \X {Missing, Given(None), Given(Str(<<Day, "T", Clock>>))}}

ResourceDocs ==
    {DocOf(BaseNames \o <<"name", "resource_type">>, c) :
        c \in {Given(Str(<<"u1">>))} \X {Given(Str(<<Day, "T", Clock>>))}
              \X {Given(None)} \X {Given(None)}
              \X {Missing, Given(Str(<<"n">>))}
              \X {Missing, Given(None), Given(Str(<<"user">>)),
                  Given(Str(<<"bento_repository">>)), Given(Str(<<"admin">>)),
                  Given(Str(<<"USER">>))}}

FinishUploadDocs ==
    {DocOf(<<"status", "reason">>, c) :
        c \in {Missing, Given(None), Given(Str(<<"uploading">>)), Given(Str(<<"building">>)),
               Given(Str(<<"success">>))}
              \X {Missing, Given(None), Given(Str(<<>>)), Given(Str(<<"r">>))}}

LabelDoc == DocOf(<<"key", "value">>, <<Given(Str(<<"foo">>)), Given(Str(<<"bar">>))>>)

RunnerDoc ==
    DocOf(<<"name", "runnable_type", "models", "resource_config">>,
          <<Given(Str(<<"r">>)), Given(None), Given(List(<<Str(<<"m">>)>>)),
            Given(DocOf(<<"cpu", "nvidia_gpu", "custom_resources">>,
                        <<Given(IntV(<<"1">>)), Given(None), Given(None)>>))>>)

ApiDoc ==
    DocOf(<<"route", "doc", "input", "output">>,
          <<Given(Str(<<"/predict">>)), Given(Str(<<>>)), Given(Str(<<"json">>)),
            Given(Str(<<"json">>))>>)

ManifestDoc(size_bytes) ==
    DocOf(<<"service", "bentoml_version", "size_bytes", "apis", "runners">>,
          <<Given(Str(<<"svc">>)), Given(Str(<<"1.0">>)), Given(size_bytes),
            Given(Dict(<<"predict">> :> ApiDoc)), Given(List(<<RunnerDoc>>))>>)

UpdateBentoDocs ==
    {DocOf(<<"manifest", "labels">>, c) :
        c \in {Missing, Given(None), Given(ManifestDoc(IntV(<<"7">>))),
               Given(ManifestDoc(Str(<<"7">>))), Given(ManifestDoc(Str(<<"big">>)))}
              \X {Missing, Given(None), Given(List(<<>>)), Given(List(<<LabelDoc>>)),
                  Given(List(<<DocOf(<<"key">>, <<Given(Str(<<"foo">>))>>)>>))}}

Documents ==
    ({"BaseSchema"} \X BaseDocs) \cup ({"ResourceSchema"} \X ResourceDocs)
        \cup ({"FinishUploadBentoSchema"} \X FinishUploadDocs)
        \cup ({"UpdateBentoSchema"} \X UpdateBentoDocs)

\* typed values: naive and aware datetimes with and without microseconds
Datetimes ==
    {Datetime(Day, Clock, micro, tz) : micro \in {0, 6, 500000}, tz \in {"", "UTC", "+02:00"}}

BaseValue(uid, created_at, updated_at, deleted_at) ==
    (<<"uid">> :> uid) @@ (<<"created_at">> :> created_at)
        @@ (<<"updated_at">> :> updated_at) @@ (<<"deleted_at">> :> deleted_at)

BaseValues ==
    {Obj("BaseSchema", BaseValue(Str(<<"u1">>), c, u, d)) :
        c \in Datetimes, u \in {None} \cup Datetimes,
        d \in {None, Datetime(Day, Midnight, 0, "")}}

ResourceValues ==
    {Obj("ResourceSchema",
         BaseValue(Str(<<"u1">>), Datetime(Day, Clock, 6, ""), None, None)
            @@ (<<"name">> :> Str(<<"n">>))
            @@ (<<"resource_type">> :> EnumMember("ResourceType", Members("ResourceType")[i].name))) :
        i \in 1..Len(Members("ResourceType"))}

FinishUploadValues ==
    {Obj("FinishUploadBentoSchema", (<<"status">> :> s) @@ (<<"reason">> :> r)) :
        s \in {None} \cup {EnumMember("BentoUploadStatus", Members("BentoUploadStatus")[i].name) :
                              i \in 1..Len(Members("BentoUploadStatus"))},
        r \in {None, Str(<<>>), Str(<<"r">>)}}

ManifestValue ==
    Obj("BentoManifestSchema",
        (<<"service">> :> Str(<<"svc">>)) @@ (<<"bentoml_version">> :> Str(<<"1.0">>))
           @@ (<<"size_bytes">> :> IntV(<<"7">>)) @@ (<<"apis">> :> Dict(<<>>))
           @@ (<<"models">> :> List(<<Str(<<"m">>)>>)) @@ (<<"runners">> :> None))

UpdateBentoValues ==
    {Obj("UpdateBentoSchema", (<<"manifest">> :> m) @@ (<<"labels">> :> l)) :
        m \in {None, ManifestValue},
        l \in {None, List(<<>>),
               List(<<Obj("LabelItemSchema",
                          (<<"key">> :> Str(<<"foo">>)) @@ (<<"value">> :> Str(<<"bar">>)))>>)}}

Values == BaseValues \cup ResourceValues \cup FinishUploadValues \cup UpdateBentoValues

(***************************************************************************)
(* The converter specification: a document is decoded, a typed value (one  *)
(* of Values, or one that decode returned) is encoded, and the encoded     *)
(* document is decoded again.                                              *)
(***************************************************************************)
InitSchema ==
    /\ op = "input"
    /\ args \in {[fn |-> "decode", cls |-> d[1], doc |-> d[2], obj |-> None] : d \in Documents}
                  \cup {[fn |-> "encode", cls |-> v.cls, doc |-> None, obj |-> v] : v \in Values}
    /\ result = <<>>
    /\ InitRest

\* schema_from_json(json_content, cls), lines 35-37
SchemaFromJson ==
    /\ op = "input"
    /\ args.fn = "decode"
    /\ op' = "decoded"
    /\ result' = schema_from_json(args.doc, args.cls)
    /\ UNCHANGED <<args, store, class_attrs, ncalls>>

\* schema_to_json(obj), lines 40-42
SchemaToJson ==
    /\ \/ op = "input" /\ args.fn = "encode"
       \/ op = "decoded" /\ ~IsExc(result)
    /\ LET obj == IF op = "input" THEN args.obj ELSE result IN
       /\ args' = [args EXCEPT !.obj = obj]
       /\ result' = schema_to_json(obj)
    /\ op' = "encoded"
    /\ UNCHANGED <<store, class_attrs, ncalls>>

\* schema_from_json(schema_to_json(obj), type(obj))
SchemaRoundTrip ==
    /\ op = "encoded"
    /\ op' = "round_trip"
    /\ result' = [json |-> result, back |-> schema_from_json(result, args.cls)]
    /\ UNCHANGED <<args, store, class_attrs, ncalls>>

NextSchema == SchemaFromJson \/ SchemaToJson \/ SchemaRoundTrip

SpecSchema == InitSchema /\ [][NextSchema]_vars

(***************************************************************************)
(* Properties of the converter                                             *)
(***************************************************************************)
\* the document without the key name
Without(doc, name) == Dict([k \in DOMAIN doc.f \ {name} |-> doc.f[k]])

\* C11: for every optional field of the decoded type, the document that
\* gives the field's key as null and the same document without the key
\* decode alike: both succeed or both fail, and when they succeed they give
\* the same value, with no value (None) for the field.
C11_MissingEqualsNull ==
    op = "decoded" =>
        \A i \in 1..Len(Attributes(args.cls)) :
            LET a == Attributes(args.cls)[i]
                missing == schema_from_json(Without(args.doc, a.name), args.cls)
            IN
            (a.type[1] = "Optional" /\ a.name \in DOMAIN args.doc.f
                /\ args.doc.f[a.name].cls = "NoneType") =>
                /\ IsExc(missing) = IsExc(result)
                /\ ~IsExc(result) =>
                      NodeEq(missing, result) /\ result.f[a.name].cls = "NoneType"

\* a value that does not coerce to the type T: no timestamp (None and the
\* empty str included) for a datetime, no value of a member for an
\* enumeration, no number for an int
Uncoercible(obj, T) ==
    CASE T[1] = "datetime" -> obj.cls # "str" \/ obj.v = <<>> \/ IsExc(parse(obj))
      [] T[1] = "Enum" ->
            ~(obj.cls = "str" /\ \E i \in 1..Len(Members(T[2])) : Members(T[2])[i].value = obj.v)
      [] T[1] = "int" -> IsExc(int(obj))
      [] OTHER -> FALSE

\* C12: schema_from_json fails when a required field is missing from the
\* document or carries a value that does not coerce to its type, and no
\* value it returns has None in a field whose type is not Optional.
C12_DecodeFails ==
    op = "decoded" =>
        /\ (\E i \in 1..Len(Attributes(args.cls)) :
               LET a == Attributes(args.cls)[i] IN
               /\ a.type[1] # "Optional"
               /\ IF a.name \in DOMAIN args.doc.f
                  THEN Uncoercible(args.doc.f[a.name], a.type)
                  ELSE a.default = NOTHING) => IsExc(result)
        /\ ~IsExc(result) =>
              \A i \in 1..Len(Attributes(args.cls)) :
                  LET a == Attributes(args.cls)[i] IN
                  a.type[1] # "Optional" => result.f[a.name].cls # "NoneType"

\* the value obj is of the type T
RECURSIVE Conforms(_, _)
Conforms(obj, T) ==
    CASE T[1] = "Optional" -> obj.cls = "NoneType" \/ Conforms(obj, Tail(T))
      [] T[1] = "Any" -> TRUE
      [] T[1] \in {"str", "int", "datetime"} -> obj.cls = T[1]
      [] T[1] = "Enum" -> obj.cls = T[2]
      [] T[1] = "List" ->
            obj.cls = "list" /\ \A i \in 1..Len(obj.v) : Conforms(obj.v[i], Tail(T))
      [] T[1] = "Dict" ->
            obj.cls = "dict" /\ \A k \in DOMAIN obj.f : Conforms(obj.f[k], Tail(T))
      [] T[1] = "attrs" ->
            obj.cls = T[2]
               /\ \A i \in 1..Len(Attributes(T[2])) :
                     Conforms(obj.f[Attributes(T[2])[i].name], Attributes(T[2])[i].type)

\* some datetime inside obj carries a tzinfo
RECURSIVE Aware(_)
Aware(obj) ==
    \/ obj.cls = "datetime" /\ obj.f.tz # ""
    \/ obj.cls = "list" /\ \E i \in 1..Len(obj.v) : Aware(obj.v[i])
    \/ obj.cls \in SchemaClasses \cup {"dict"} /\ \E k \in DOMAIN obj.f : Aware(obj.f[k])

WellFormed == Conforms(args.obj, Attrs(args.cls))

\* C13: for every well-formed value v, schema_from_json(schema_to_json(v),
\* type(v)) equals v.
C13_RoundTrip ==
    op = "round_trip" /\ WellFormed => NodeEq(result.back, args.obj)

\* C13, as amended: the round trip gives v back for every well-formed value
\* v whose timestamps are naive (carry no tzinfo).
C13_RoundTripNaive ==
    op = "round_trip" /\ WellFormed /\ ~Aware(args.obj) => NodeEq(result.back, args.obj)

C13_Witness ==
    /\ op = "round_trip"
    /\ args.cls = "BaseSchema"
    /\ WellFormed
    /\ args.obj.f[<<"created_at">>].f.micro = 6
    /\ args.obj.f[<<"created_at">>].f.tz = ""
    /\ args.obj.f[<<"updated_at">>].cls = "NoneType"
    /\ ~Aware(args.obj)
    /\ NodeEq(result.back, args.obj)

(***************************************************************************)
(* deployments.py: terminate.  op is the position in the command; result   *)
(* holds the local retries, the status of the deployment fetched last, the *)
(* lines printed to the console, and the history of the run: the number of *)
(* status fetches and of sleeps, the time slept in hundredths, and whether *)
(* any fetch has returned NONDEPLOYED.  get_deployment returns a           *)
(* deployment with any status of DeploymentStatus.                         *)
(***************************************************************************)
\* the 30 of line 224
MaxRetries == 30

\* sleep(0.33), in hundredths
SleepInterval == 33

NONDEPLOYED == EnumMember("DeploymentStatus", "NONDEPLOYED")

Statuses ==
    {EnumMember("DeploymentStatus", Members("DeploymentStatus")[i].name) :
        i \in 1..Len(Members("DeploymentStatus"))}

\* line 220: deployment.status == DeploymentStatus.NONDEPLOYED
Terminated(deployment) == deployment.status = NONDEPLOYED

\* the test retries > 30
TimedOutLate(retries) == retries > MaxRetries

\* line 224: retries >= 30
TimedOut(retries) == retries >= MaxRetries

\* the loop stops on every status that is not UNKNOWN
CheckStatusAny(r) ==
    IF r.status # EnumMember("DeploymentStatus", "UNKNOWN")
    THEN [pc |-> "done", console |-> Append(r.console, "terminated")]
    ELSE IF TimedOut(r.retries)
    THEN [pc |-> "done", console |-> Append(r.console, "timed out")]
    ELSE [pc |-> "sleep", console |-> r.console]

\* lines 220-228: the two tests of the loop body, in their order
CheckStatus(r) ==
    IF Terminated(r)
    THEN [pc |-> "done", console |-> Append(r.console, "terminated")]
    ELSE IF TimedOut(r.retries)
    THEN [pc |-> "done", console |-> Append(r.console, "timed out")]
    ELSE [pc |-> "sleep", console |-> r.console]

InitTerminate ==
    /\ op = "terminate"
    /\ args \in [block : BOOLEAN]
    /\ result = [retries |-> 0, status |-> None, console |-> <<>>,
                 fetches |-> 0, sleeps |-> 0, slept |-> 0, seen |-> FALSE]
    /\ InitRest

\* lines 205-215: the terminate request, which may raise, and the block test
TerminateDeployment ==
    /\ op = "terminate"
    /\ \E raised \in BOOLEAN :
          result' = [result EXCEPT !.console =
                        IF raised THEN <<"Could not terminate deployment">> ELSE <<>>]
    /\ op' = IF args.block THEN "get_deployment" ELSE "returned"
    /\ UNCHANGED <<args, store, class_attrs, ncalls>>

\* lines 217-219: the status fetch
GetDeployment ==
    /\ op = "get_deployment"
    /\ \E status \in Statuses :
          result' = [result EXCEPT !.status = status, !.fetches = @ + 1,
                                   !.seen = @ \/ status = NONDEPLOYED]
    /\ op' = "check"
    /\ UNCHANGED <<args, store, class_attrs, ncalls>>

\* lines 220-228: report and break, or go on
Check ==
    /\ op = "check"
    /\ op' = CheckStatus(result).pc
    /\ result' = [result EXCEPT !.console = CheckStatus(result).console]
    /\ UNCHANGED <<args, store, class_attrs, ncalls>>

\* lines 230-231: sleep(0.33); retries += 1
Sleep ==
    /\ op = "sleep"
    /\ result' = [result EXCEPT !.retries = @ + 1, !.sleeps = @ + 1,
                                !.slept = @ + SleepInterval]
    /\ op' = "get_deployment"
    /\ UNCHANGED <<args, store, class_attrs, ncalls>>

NextTerminate == TerminateDeployment \/ GetDeployment \/ Check \/ Sleep

SpecTerminate == InitTerminate /\ [][NextTerminate]_vars

(***************************************************************************)
(* Properties of terminate                                                 *)
(***************************************************************************)
Reported(line) == \E i \in 1..Len(result.console) : result.console[i] = line

\* the counters of the run agree with the position in the loop, and the
\* command is never stuck before it ends
LoopCounters ==
    /\ result.sleeps = result.retries
    /\ result.slept = result.sleeps * SleepInterval
    /\ result.fetches = IF op \in {"check", "sleep", "done"} THEN result.retries + 1
                        ELSE result.retries
    /\ op \in {"done", "returned"} \/ ENABLED NextTerminate
    /\ op = "done" => Reported("terminated") \/ Reported("timed out")

\* C14: the loop makes at most 30 status fetches, sleeps 0.33 between two
\* fetches, and reports the timeout when none of them returned NONDEPLOYED.
C14_ThirtyFetches ==
    /\ LoopCounters
    /\ result.fetches <= MaxRetries
    /\ Reported("timed out") => result.fetches = MaxRetries /\ ~result.seen
    /\ result.fetches = MaxRetries /\ ~result.seen => op \in {"check", "done"}

\* C14, as amended: the loop makes at most 31 status fetches, the first and
\* 30 retries, and sleeps 0.33 before each retry; it reports the timeout
\* exactly when the 31st fetch, like the 30 before, did not return
\* NONDEPLOYED.
C14_ThirtyRetries ==
    /\ LoopCounters
    /\ result.fetches <= MaxRetries + 1
    /\ result.sleeps <= MaxRetries
    /\ Reported("timed out") => result.fetches = MaxRetries + 1 /\ ~result.seen
    /\ result.fetches = MaxRetries + 1 /\ ~result.seen => op \in {"check", "done"}

C14_Witness ==
    /\ op = "done"
    /\ Reported("timed out")
    /\ result.fetches = MaxRetries + 1
    /\ result.sleeps = MaxRetries
    /\ result.status = EnumMember("DeploymentStatus", "RUNNING")

\* C15: a run of the loop reports one outcome: "terminated" only with
\* NONDEPLOYED as the status fetched last, "timed out" only when no fetch
\* returned NONDEPLOYED, never both; after the report the command has ended
\* (no further fetch or sleep), a fetch that returned NONDEPLOYED is followed
\* by the report alone, and without block no status is fetched.
C15_OneOutcome ==
    /\ Len(SelectSeq(result.console, LAMBDA l : l \in {"terminated", "timed out"}))
          = IF op = "done" THEN 1 ELSE 0
    /\ Reported("terminated") => op = "done" /\ result.status = NONDEPLOYED
    /\ Reported("timed out") => op = "done" /\ ~result.seen
    /\ ~(Reported("terminated") /\ Reported("timed out"))
    /\ result.seen => op \in {"check", "done"} /\ result.status = NONDEPLOYED
    /\ op = "done" => ~ENABLED NextTerminate
    /\ ~args.block => result.fetches = 0 /\ result.sleeps = 0 /\ op \in {"terminate", "returned"}

C15_Witness ==
    /\ op = "done"
    /\ Reported("terminated")
    /\ ~Reported("timed out")
    /\ result.fetches = 3
    /\ result.sleeps = 2

====
